---- MODULE Spec2Model ----
(***************************************************************************)
(* Model of the RPL trace-metric parsers:                                  *)
(*   src/main.py   parse_pcap_metrics, parse_log_metrics                   *)
(*   src/omerw.py  parse_log                                               *)
(* One behaviour is one call of one of the three functions (fn), from the  *)
(* initialisation of its locals to its return (or to an exception leaving  *)
(* it).  Each function's locals are the fields of one record variable and  *)
(* keep their source names.                                                *)
(*                                                                         *)
(* Numbers.  Python floats are modelled as exact rationals <<n, d>> in     *)
(* lowest terms with d > 0.  Capture timestamps are counted in half        *)
(* seconds (Seconds converts), log timestamps in milliseconds as the code  *)
(* computes them.                                                          *)
(***************************************************************************)
EXTENDS Integers, Sequences, FiniteSets

VARIABLES fn, pc, cap, printed, result, duration, pcap, log, corr, obs

vars == <<fn, pc, cap, printed, result, duration, pcap, log, corr, obs>>

\* ---------------------------------------------------------------- bounds
MaxRecords == 3
MaxLines == 3
MaxEvents == 3
MaxT == 3

\* ------------------------------------------------------------ arithmetic
None == "None"

Abs(x) == IF x < 0 THEN -x ELSE x

Max(a, b) == IF a >= b THEN a ELSE b

RECURSIVE GCD(_, _)
GCD(a, b) == IF b = 0 THEN a ELSE GCD(b, a % b)

\* n / d as a float, d > 0
Rat(n, d) == LET g == GCD(Abs(n), d) IN <<n \div g, d \div g>>

RatMul(a, b) == Rat(a[1] * b[1], a[2] * b[2])

\* a / b, b > 0
RatDiv(a, b) == Rat(a[1] * b[2], a[2] * b[1])

RatLE(a, b) == a[1] * b[2] <= b[1] * a[2]

RatLT(a, b) == a[1] * b[2] < b[1] * a[2]

Zero == Rat(0, 1)

One == Rat(1, 1)

RECURSIVE sum(_)
sum(s) == IF s = <<>> THEN 0 ELSE Head(s) + sum(Tail(s))

RECURSIVE max(_)
max(s) == IF Len(s) = 1 THEN s[1] ELSE Max(s[1], max(Tail(s)))

RECURSIVE min(_)
min(s) == IF Len(s) = 1 THEN s[1]
          ELSE LET m == min(Tail(s)) IN IF s[1] <= m THEN s[1] ELSE m

\* s[:k]
Prefix(s, k) == SubSeq(s, 1, IF k <= Len(s) THEN k ELSE Len(s))

\* s[-k:]
Suffix(s, k) == SubSeq(s, IF k <= Len(s) THEN Len(s) - k + 1 ELSE 1, Len(s))

Range(s) == {s[i] : i \in 1..Len(s)}

\* a count of half seconds as seconds
Seconds(t) == Rat(t, 2)

\* ===================================================== parse_pcap_metrics
\* What a capture record exposes to the scan: its sniff_timestamp, whether
\* it has an ipv6 layer, whether it has an icmpv6 layer, and that layer's
\* type field.
\* sniff_timestamp: readable (a count of half seconds) or not
Timestamps == {[ok |-> TRUE, v |-> t] : t \in 0..MaxT} \cup {[ok |-> FALSE, v |-> 0]}

\* icmpv6.type: absent, an integer code, or text int() cannot read
TypeCodes == {129, 2, 155, 128}

Types == {[kind |-> "int", v |-> c] : c \in TypeCodes}
         \cup {[kind |-> "absent", v |-> 0], [kind |-> "bad", v |-> 0]}

NoLayer == {[ts |-> t, ipv6 |-> v6, icmpv6 |-> FALSE, type |-> [kind |-> "absent", v |-> 0]] :
              t \in Timestamps, v6 \in BOOLEAN}

Icmp == {[ts |-> t, ipv6 |-> v6, icmpv6 |-> TRUE, type |-> ty] :
           t \in Timestamps, v6 \in BOOLEAN, ty \in Types}

Packets == NoLayer \cup Icmp

AcceptedReply_no155 == {129, 2}

AcceptedReply == {129, 2, 155}

PcapLocals == [send_times |-> <<>>, recv_times |-> <<>>, sent |-> 0, received |-> 0]

\* getattr(pkt.icmpv6, 'type', 0)
TypeField(pkt) == IF pkt.type.kind = "absent" THEN [kind |-> "int", v |-> 0] ELSE pkt.type

\* The body of the for loop, with its except/continue: the locals after pkt.
PcapStep(p, pkt) ==
    IF ~pkt.ts.ok THEN p
    ELSE IF ~(pkt.ipv6 \/ pkt.icmpv6) THEN p
    ELSE LET q == [p EXCEPT !.sent = @ + 1, !.send_times = Append(@, pkt.ts.v)] IN
         IF ~pkt.icmpv6 THEN q
         ELSE IF TypeField(pkt).kind = "bad" THEN q
         ELSE IF TypeField(pkt).v \in AcceptedReply
              THEN [q EXCEPT !.received = @ + 1, !.recv_times = Append(@, pkt.ts.v)]
              ELSE q

Pdr_swapped(p) == IF p.received > 0 THEN Rat(p.sent * 100, p.received) ELSE Zero

Pdr(p) == IF p.sent > 0 THEN Rat(p.received * 100, p.sent) ELSE Zero

Ae2ed_lastk(p) ==
    IF p.recv_times # <<>>
    THEN RatMul(RatDiv(Seconds(sum(p.recv_times)
                               - sum(Suffix(p.send_times, Len(p.recv_times)))),
                       Rat(Len(p.recv_times), 1)),
                Rat(1000, 1))
    ELSE Zero

Ae2ed(p) ==
    IF p.recv_times # <<>>
    THEN RatMul(RatDiv(Seconds(sum(p.recv_times)
                               - sum(Prefix(p.send_times, Len(p.recv_times)))),
                       Rat(Len(p.recv_times), 1)),
                Rat(1000, 1))
    ELSE Zero

Duration_floored(p) ==
    IF p.recv_times # <<>> /\ p.send_times # <<>>
    THEN LET d == Seconds(max(p.recv_times \o p.send_times)
                          - min(p.recv_times \o p.send_times))
         IN IF RatLT(d, One) THEN One ELSE d
    ELSE One

Duration(p) ==
    IF p.recv_times # <<>> /\ p.send_times # <<>>
    THEN Seconds(max(p.recv_times \o p.send_times)
                 - min(p.recv_times \o p.send_times))
    ELSE One

Throughput(p, d) == IF RatLT(Zero, d) THEN RatDiv(Rat(p.received, 1), d) ELSE Zero

PcapFallback ==
    [PDR |-> Zero, AverageEndToEndDelay |-> Zero, Throughput |-> Zero]

\* What the scan has been given so far, counted by what each record exposes
\* (not by what the code did with it): records read; records with an
\* unreadable timestamp or type; records with a network-layer (ipv6) header,
\* and those of them carrying an accepted reply; records with either header,
\* and records with a control-layer header carrying an accepted reply.
PcapObs == [records |-> 0, undecodable |-> 0, net |-> 0, netReply |-> 0,
            hdr |-> 0, reply |-> 0]

IsReply(pkt) == pkt.icmpv6 /\ pkt.type.kind = "int" /\ pkt.type.v \in {129, 2, 155}

Observe(o, pkt) ==
    IF ~pkt.ts.ok \/ pkt.type.kind = "bad"
    THEN [o EXCEPT !.records = @ + 1, !.undecodable = @ + 1]
    ELSE [o EXCEPT !.records = @ + 1,
                   !.net = @ + (IF pkt.ipv6 THEN 1 ELSE 0),
                   !.netReply = @ + (IF pkt.ipv6 /\ IsReply(pkt) THEN 1 ELSE 0),
                   !.hdr = @ + (IF pkt.ipv6 \/ pkt.icmpv6 THEN 1 ELSE 0),
                   !.reply = @ + (IF IsReply(pkt) THEN 1 ELSE 0)]

\* Path(pcap_path).is_file() is false
PcapNotFound ==
    /\ fn = "parse_pcap_metrics" /\ pc = "start"
    /\ printed' = "[Warning] PCAP not found"
    /\ result' = PcapFallback
    /\ pc' = "returned"
    /\ UNCHANGED <<fn, cap, duration, pcap, log, corr, obs>>

\* pyshark.FileCapture(...) returns the capture handle
PcapOpen ==
    /\ fn = "parse_pcap_metrics" /\ pc = "start"
    /\ cap' = "open"
    /\ pc' = "scan"
    /\ UNCHANGED <<fn, printed, result, duration, pcap, log, corr, obs>>

\* pyshark.FileCapture(...) raises: no handle exists
PcapOpenFail ==
    /\ fn = "parse_pcap_metrics" /\ pc = "start"
    /\ printed' = "[Error] Failed to parse PCAP"
    /\ result' = PcapFallback
    /\ pc' = "returned"
    /\ UNCHANGED <<fn, cap, duration, pcap, log, corr, obs>>

\* one iteration of for pkt in cap
PcapRecord ==
    /\ fn = "parse_pcap_metrics" /\ pc = "scan"
    /\ obs.records < MaxRecords
    /\ \E pkt \in Packets :
         /\ pcap' = PcapStep(pcap, pkt)
         /\ obs' = Observe(obs, pkt)
    /\ UNCHANGED <<fn, pc, cap, printed, result, duration, log, corr>>

\* the iteration of cap raises (the decoder fails): the outer handler returns
\* the fallback; cap.close() is not reached
PcapIterFail ==
    /\ fn = "parse_pcap_metrics" /\ pc = "scan"
    /\ printed' = "[Error] Failed to parse PCAP"
    /\ result' = PcapFallback
    /\ pc' = "returned"
    /\ UNCHANGED <<fn, cap, duration, pcap, log, corr, obs>>

\* cap.close() raises: the outer handler returns the fallback
PcapCloseFail ==
    /\ fn = "parse_pcap_metrics" /\ pc = "scan"
    /\ \E c \in {"open", "closed"} : cap' = c
    /\ printed' = "[Error] Failed to parse PCAP"
    /\ result' = PcapFallback
    /\ pc' = "returned"
    /\ UNCHANGED <<fn, duration, pcap, log, corr, obs>>

\* the iteration ends: cap.close(), the metrics, the return
PcapFinish ==
    /\ fn = "parse_pcap_metrics" /\ pc = "scan"
    /\ cap' = "closed"
    /\ duration' = Duration(pcap)
    /\ result' = [PDR |-> Pdr(pcap),
                  AverageEndToEndDelay |-> Ae2ed(pcap),
                  Throughput |-> Throughput(pcap, Duration(pcap))]
    /\ pc' = "returned"
    /\ UNCHANGED <<fn, printed, pcap, log, corr, obs>>

NextPcap ==
    \/ PcapNotFound
    \/ PcapOpen
    \/ PcapOpenFail
    \/ PcapRecord
    \/ PcapIterFail
    \/ PcapCloseFail
    \/ PcapFinish

\* ====================================================== parse_log_metrics
\* What a log line exposes to the extractors: node is the digit string of
\* "Node id is set to <digits>" ("-" when the line has no such text,
\* "nodigits" when the text is there with no digits after it); etx is <<v>>
\* when ETX_PATTERN matches with number v, else <<>>; ctrl is whether
\* RPL_CTRL_PATTERN matches; energy is <<v>> when ENERGY_PATTERN matches with
\* number v, else <<>>; tx and rx are whether 'TX' and 'RX' occur.
NodeIds == {"1", "01", "2"}

EtxSamples == {1, 3}

EnergySamples == {0, 4}

LogLines == [node : NodeIds \cup {"-", "nodigits"},
             etx : {<<>>} \cup {<<v>> : v \in EtxSamples},
             ctrl : BOOLEAN,
             energy : {<<>>} \cup {<<v>> : v \in EnergySamples},
             tx : BOOLEAN, rx : BOOLEAN]

LogLocals == [energy_score |-> 0, etx_values |-> <<>>, ctrl_count |-> 0, node_ids |-> {}]

EnergyStep_if(score, line) ==
    LET s == IF line.energy # <<>> THEN line.energy[1] ELSE score
    IN IF line.tx /\ line.rx THEN s + 1 ELSE s

EnergyStep(score, line) ==
    IF line.energy # <<>> THEN line.energy[1]
    ELSE IF line.tx /\ line.rx THEN score + 1
    ELSE score

\* the body of for line in f
LogStep(l, line) ==
    [node_ids |-> IF line.node \in NodeIds THEN l.node_ids \cup {line.node} ELSE l.node_ids,
     etx_values |-> IF line.etx # <<>> THEN Append(l.etx_values, line.etx[1]) ELSE l.etx_values,
     ctrl_count |-> IF line.ctrl THEN l.ctrl_count + 1 ELSE l.ctrl_count,
     energy_score |-> EnergyStep(l.energy_score, line)]

NodeCount_plus1(l) == 1 + Cardinality(l.node_ids)

NodeCount(l) == Max(1, Cardinality(l.node_ids))

AvgEtx(l) == IF l.etx_values # <<>> THEN Rat(sum(l.etx_values), Len(l.etx_values)) ELSE One

LogFallback_etx0 ==
    [OverheadPackets |-> Zero, EnergyConsumption |-> Zero, AverageETX |-> Zero]

LogFallback ==
    [OverheadPackets |-> Zero, EnergyConsumption |-> Zero, AverageETX |-> One]

\* What the scan has been given so far, by what each line carries: lines
\* read; control-message lines; lines announcing a node id, and the ids
\* announced; the number on the last
\* "Total energy" line (<<>> when there was none); the lines on which a
\* transmit and a receive marker co-occur, in all and since the last "Total
\* energy" line (a line that itself carries "Total energy" not counted).
LogObs == [lines |-> 0, ctrl |-> 0, announces |-> 0, ids |-> {}, lastEnergy |-> <<>>,
           markers |-> 0, markersSince |-> 0]

ObserveLine(o, line) ==
    [lines |-> o.lines + 1,
     ctrl |-> o.ctrl + (IF line.ctrl THEN 1 ELSE 0),
     announces |-> o.announces + (IF line.node \in NodeIds THEN 1 ELSE 0),
     ids |-> o.ids \cup ({line.node} \cap NodeIds),
     lastEnergy |-> IF line.energy # <<>> THEN line.energy ELSE o.lastEnergy,
     markers |-> o.markers + (IF line.tx /\ line.rx THEN 1 ELSE 0),
     markersSince |-> IF line.energy # <<>> THEN 0
                      ELSE o.markersSince + (IF line.tx /\ line.rx THEN 1 ELSE 0)]

\* open(log_path, 'r', errors='ignore') succeeds
LogOpen ==
    /\ fn = "parse_log_metrics" /\ pc = "start"
    /\ pc' = "scan"
    /\ UNCHANGED <<fn, cap, printed, result, duration, pcap, log, corr, obs>>

\* open raises (missing or unreadable file)
LogOpenFail ==
    /\ fn = "parse_log_metrics" /\ pc = "start"
    /\ printed' = "[Error] Failed to parse log"
    /\ result' = LogFallback
    /\ pc' = "returned"
    /\ UNCHANGED <<fn, cap, duration, pcap, log, corr, obs>>

\* one iteration of for line in f
LogLine ==
    /\ fn = "parse_log_metrics" /\ pc = "scan"
    /\ obs.lines < MaxLines
    /\ \E line \in LogLines :
         /\ log' = LogStep(log, line)
         /\ obs' = ObserveLine(obs, line)
    /\ UNCHANGED <<fn, pc, cap, printed, result, duration, pcap, corr>>

\* reading the next line raises
LogReadFail ==
    /\ fn = "parse_log_metrics" /\ pc = "scan"
    /\ printed' = "[Error] Failed to parse log"
    /\ result' = LogFallback
    /\ pc' = "returned"
    /\ UNCHANGED <<fn, cap, duration, pcap, log, corr, obs>>

\* end of file: the derived metrics, the return
LogFinish ==
    /\ fn = "parse_log_metrics" /\ pc = "scan"
    /\ result' = [OverheadPackets |-> Rat(log.ctrl_count, NodeCount(log)),
                  EnergyConsumption |-> Rat(log.energy_score, 1),
                  AverageETX |-> AvgEtx(log)]
    /\ pc' = "returned"
    /\ UNCHANGED <<fn, cap, printed, duration, pcap, log, corr, obs>>

NextLog ==
    \/ LogOpen
    \/ LogOpenFail
    \/ LogLine
    \/ LogReadFail
    \/ LogFinish

\* ===================================================== omerw.py parse_log
\* What a log line exposes: ts is the three digit groups <<mm, ss, mmm>> of
\* a leading "mm:ss.mmm" (<<>> when the line does not start with one); sent
\* and received are whether the line holds "broadcast message sent" and
\* "broadcast message received"; power is <<tx, listen>>, the fifth and sixth
\* numbers of a powertrace (" P ") line with more than five numbers, else
\* <<>>; etx is <<v>> when the line holds "ETX" and ends in the number v,
\* <<>> otherwise (no "ETX", or a last word float() cannot read).
TsSamples == {<<0, 0, 0>>, <<0, 1, 500>>, <<1, 0, 0>>}

PowerSamples == {<<1, 2>>}

CorrLines == [ts : {<<>>} \cup TsSamples,
              sent : BOOLEAN, received : BOOLEAN,
              power : {<<>>} \cup PowerSamples,
              etx : {<<>>, <<2>>}]

\* timestamp = (minutes * 60 + seconds) * 1000 + millis, or None (<<>>)
Timestamp(line) ==
    IF line.ts = <<>> THEN <<>>
    ELSE <<(line.ts[1] * 60 + line.ts[2]) * 1000 + line.ts[3]>>

\* send_times is the dict, as its (key, value) pairs in insertion order;
\* first_time, last_time are <<>> for None and <<t>> otherwise
CorrLocals == [sent_packets |-> 0, received_packets |-> 0, delays |-> <<>>,
               energy_consumption |-> 0, etx_values |-> <<>>,
               first_time |-> <<>>, last_time |-> <<>>, send_times |-> <<>>]

\* send_times[key] = value
DictSet(d, key, value) ==
    IF \E i \in 1..Len(d) : d[i][1] = key
    THEN [i \in 1..Len(d) |-> IF d[i][1] = key THEN <<key, value>> ELSE d[i]]
    ELSE Append(d, <<key, value>>)

LastSend_first(d) == d[1][2]

\* list(send_times.values())[-1]
LastSend(d) == d[Len(d)][2]

\* the body of for line in f
CorrStep(c, line) ==
    LET timestamp == Timestamp(line)
        c1 == IF timestamp # <<>>
              THEN [c EXCEPT !.first_time = IF @ = <<>> THEN timestamp ELSE @,
                             !.last_time = timestamp]
              ELSE c
        c2 == IF line.sent
              THEN [c1 EXCEPT !.sent_packets = @ + 1,
                              !.send_times = IF timestamp # <<>>
                                             THEN DictSet(@, c1.sent_packets + 1, timestamp[1])
                                             ELSE @]
              ELSE c1
        c3 == IF line.received
              THEN [c2 EXCEPT !.received_packets = @ + 1,
                              !.delays = IF timestamp # <<>> /\ c2.send_times # <<>>
                                         THEN Append(@, timestamp[1] - LastSend(c2.send_times))
                                         ELSE @]
              ELSE c2
        c4 == IF line.power # <<>>
              THEN [c3 EXCEPT !.energy_consumption = @ + line.power[1] + line.power[2]]
              ELSE c3
    IN IF line.etx # <<>> THEN [c4 EXCEPT !.etx_values = Append(@, line.etx[1])] ELSE c4

\* round(x, 2): to the nearest hundredth, ties to the even one
Round2(x) ==
    LET n == x[1] * 100
        d == x[2]
        q == (2 * n + d) \div (2 * d)
        tie == (2 * n + d) % (2 * d) = 0
    IN Rat(IF tie /\ q % 2 = 1 THEN q - 1 ELSE q, 100)

CorrPdr(c) ==
    IF c.sent_packets > 0 THEN Rat(c.received_packets * 100, c.sent_packets) ELSE Zero

CorrAvgDelay(c) == IF c.delays # <<>> THEN Rat(sum(c.delays), Len(c.delays)) ELSE Zero

\* first_time and last_time are truthy: not None and not 0
Truthy(t) == t # <<>> /\ t # <<0>>

CorrDuration(c) ==
    IF Truthy(c.first_time) /\ Truthy(c.last_time)
    THEN Rat(c.last_time[1] - c.first_time[1], 1000)
    ELSE One

CorrThroughput(c) ==
    IF RatLT(Zero, CorrDuration(c))
    THEN RatDiv(Rat(c.received_packets, 1), CorrDuration(c))
    ELSE Zero

CorrAvgEtx(c) == IF c.etx_values # <<>> THEN Rat(sum(c.etx_values), Len(c.etx_values)) ELSE Zero

\* What the scan has been given so far, as send and receive events (a line
\* holding both is a send followed by a receive): lines read; receive
\* events; lastSend, the timestamp of the most recent timestamped send
\* (<<>> before the first); pairedLast, the delays of pairing each
\* timestamped receive with lastSend, the send staying available;
\* unmatched, the timestamped sends no receive has consumed yet, and
\* pairedLifo, the delays of pairing each timestamped receive with the most
\* recent unmatched send and consuming it.
CorrObs == [lines |-> 0, receives |-> 0, lastSend |-> <<>>, pairedLast |-> <<>>,
            unmatched |-> <<>>, pairedLifo |-> <<>>]

ObserveEvents(o, line) ==
    LET t == Timestamp(line)
        send == line.sent /\ t # <<>>
        recv == line.received /\ t # <<>>
        last == IF send THEN t ELSE o.lastSend
        stack == IF send THEN Append(o.unmatched, t[1]) ELSE o.unmatched
    IN [lines |-> o.lines + 1,
        receives |-> o.receives + (IF line.received THEN 1 ELSE 0),
        lastSend |-> last,
        pairedLast |-> IF recv /\ last # <<>>
                       THEN Append(o.pairedLast, t[1] - last[1]) ELSE o.pairedLast,
        unmatched |-> IF recv /\ stack # <<>>
                      THEN SubSeq(stack, 1, Len(stack) - 1) ELSE stack,
        pairedLifo |-> IF recv /\ stack # <<>>
                       THEN Append(o.pairedLifo, t[1] - stack[Len(stack)])
                       ELSE o.pairedLifo]

\* open(filename, "r") succeeds
CorrOpen ==
    /\ fn = "parse_log" /\ pc = "start"
    /\ pc' = "scan"
    /\ UNCHANGED <<fn, cap, printed, result, duration, pcap, log, corr, obs>>

\* open raises: nothing in parse_log catches it
CorrOpenFail ==
    /\ fn = "parse_log" /\ pc = "start"
    /\ pc' = "raised"
    /\ UNCHANGED <<fn, cap, printed, result, duration, pcap, log, corr, obs>>

\* one iteration of for line in f
CorrLine ==
    /\ fn = "parse_log" /\ pc = "scan"
    /\ obs.lines < MaxEvents
    /\ \E line \in CorrLines :
         /\ corr' = CorrStep(corr, line)
         /\ obs' = ObserveEvents(obs, line)
    /\ UNCHANGED <<fn, pc, cap, printed, result, duration, pcap, log>>

\* end of file: the metrics computation, the return
CorrFinish ==
    /\ fn = "parse_log" /\ pc = "scan"
    /\ duration' = CorrDuration(corr)
    /\ result' = [PDR |-> Round2(CorrPdr(corr)),
                  AverageEndToEndDelay |-> Round2(CorrAvgDelay(corr)),
                  OverheadPackets |-> Rat(corr.sent_packets - corr.received_packets, 1),
                  EnergyConsumption |-> Rat(corr.energy_consumption, 1),
                  Throughput |-> Round2(CorrThroughput(corr)),
                  AverageETX |-> Round2(CorrAvgEtx(corr))]
    /\ pc' = "returned"
    /\ UNCHANGED <<fn, cap, printed, pcap, log, corr, obs>>

NextCorr ==
    \/ CorrOpen
    \/ CorrOpenFail
    \/ CorrLine
    \/ CorrFinish

\* ================================================================ the run
Functions == {"parse_pcap_metrics", "parse_log_metrics", "parse_log"}

\* the locals as the function called initialises them
InitOf(F) ==
    /\ fn \in F
    /\ pc = "start"
    /\ cap = None
    /\ printed = None
    /\ result = None
    /\ duration = None
    /\ pcap = PcapLocals
    /\ log = LogLocals
    /\ corr = CorrLocals
    /\ obs = CASE fn = "parse_pcap_metrics" -> PcapObs
               [] fn = "parse_log_metrics" -> LogObs
               [] fn = "parse_log" -> CorrObs

Init == InitOf(Functions)

Next ==
    \/ NextPcap
    \/ NextLog
    \/ NextCorr

Spec == Init /\ [][Next]_vars

\* one call of parse_pcap_metrics
InitPcap == InitOf({"parse_pcap_metrics"})

SpecPcap == InitPcap /\ [][NextPcap]_vars

\* one call of parse_log_metrics
InitLog == InitOf({"parse_log_metrics"})

SpecLog == InitLog /\ [][NextLog]_vars

\* one call of omerw.py's parse_log
InitCorr == InitOf({"parse_log"})

SpecCorr == InitCorr /\ [][NextCorr]_vars

\* one call of either parser of main.py
NextMain ==
    \/ NextPcap
    \/ NextLog

InitMain == InitOf({"parse_pcap_metrics", "parse_log_metrics"})

SpecMain == InitMain /\ [][NextMain]_vars

\* ================================================================ claims
Returned == pc = "returned" /\ printed = None

Hundred == Rat(100, 1)

SetMax(S) == CHOOSE x \in S : \A y \in S : y <= x

SetMin(S) == CHOOSE x \in S : \A y \in S : x <= y

Sorted(s) == \A i \in 1..(Len(s) - 1) : s[i] <= s[i + 1]

\* ---- parse_pcap_metrics
\* C1: after every record received <= sent, and the returned PDR is
\* received/sent*100 when sent > 0 and 0 otherwise, so it lies in [0,100];
\* records whose decoding fails part-way included.
C1_ReceivedLeSentPdrInRange ==
    fn = "parse_pcap_metrics" =>
        /\ pcap.received <= pcap.sent
        /\ pc = "returned" => /\ RatLE(Zero, result.PDR)
                              /\ RatLE(result.PDR, Hundred)
        /\ Returned => result.PDR = IF pcap.sent > 0
                                    THEN Rat(pcap.received * 100, pcap.sent)
                                    ELSE Zero

\* a scan of three records, all counted as sent, one of them accepted as a
\* reply and one whose type could not be read after it was counted
C1_Witness ==
    /\ fn = "parse_pcap_metrics" /\ Returned
    /\ obs.undecodable = 1
    /\ pcap.sent = 3 /\ pcap.received = 1
    /\ result.PDR = Rat(100, 3)

\* C2 as stated: over decodable records, sent is the number of records with
\* a network-layer header and received the number of those that also carry
\* an accepted reply; a record without a network-layer header counts nowhere.
C2_SentCountsNetworkLayerOnly ==
    (fn = "parse_pcap_metrics" /\ obs.undecodable = 0) =>
        /\ pcap.sent = obs.net
        /\ pcap.received = obs.netReply

\* C2 amended: over decodable records, sent is the number of records with a
\* network-layer or a control-layer header, and received the number of
\* records with a control-layer header whose subtype is 129, 2 or 155 (with
\* or without a network-layer header); a record with neither header counts
\* nowhere; the PDR follows from the two.
C2_SentCountsEitherHeader ==
    (fn = "parse_pcap_metrics" /\ obs.undecodable = 0) =>
        /\ pcap.sent = obs.hdr
        /\ pcap.received = obs.reply
        /\ Len(pcap.send_times) = obs.hdr
        /\ Len(pcap.recv_times) = obs.reply
        /\ Returned => result.PDR = IF obs.hdr > 0 THEN Rat(obs.reply * 100, obs.hdr)
                                    ELSE Zero

\* decodable records, one with neither header, one with both and an accepted
\* reply, one with a control-layer header alone
C2_Witness ==
    /\ fn = "parse_pcap_metrics" /\ Returned
    /\ obs.undecodable = 0 /\ obs.records = 3
    /\ obs.hdr = 2 /\ obs.net = 1 /\ obs.reply = 1 /\ obs.netReply = 1
    /\ pcap.sent = 2 /\ pcap.received = 1

\* all recorded timestamps
Recorded == Range(pcap.send_times) \cup Range(pcap.recv_times)

Span == IF Recorded = {} THEN 0 ELSE SetMax(Recorded) - SetMin(Recorded)

\* C3 as stated: the duration is max - min of all recorded timestamps
\* floored at 1.0, and the throughput is received / that duration.
C3_DurationFlooredAtOne ==
    (fn = "parse_pcap_metrics" /\ Returned) =>
        LET floored == IF RatLT(Seconds(Span), One) THEN One ELSE Seconds(Span) IN
        /\ duration = floored
        /\ result.Throughput = RatDiv(Rat(pcap.received, 1), floored)

\* C3 amended: the duration is max - min of all recorded timestamps when at
\* least one receive was recorded (it is then not floored: it may be below
\* 1.0, and is 0 when all recorded timestamps are equal) and 1.0 when no
\* receive was recorded; the throughput is received / duration when the
\* duration is above 0 and 0 when it is 0.
C3_DurationIsSpanOrOne ==
    (fn = "parse_pcap_metrics" /\ Returned) =>
        /\ duration = IF pcap.recv_times # <<>> THEN Seconds(Span) ELSE One
        /\ result.Throughput = IF Span > 0 /\ pcap.recv_times # <<>>
                               THEN Rat(pcap.received * 2, Span)
                               ELSE Zero

\* two receives half a second apart: the duration is 0.5, the throughput 4
C3_Witness ==
    /\ fn = "parse_pcap_metrics" /\ Returned
    /\ pcap.received = 2
    /\ duration = Rat(1, 2)
    /\ result.Throughput = Rat(4, 1)

\* the sum over i of recv_times[i] - send_times[i]
RECURSIVE PairedSum(_, _)
PairedSum(r, s) ==
    IF r = <<>> THEN 0 ELSE (Head(r) - Head(s)) + PairedSum(Tail(r), Tail(s))

\* C4 as stated: for timestamps in any order the average end-to-end delay
\* is >= 0, and exactly 0 when recv_times is empty.
C4_DelayNonNegative ==
    (fn = "parse_pcap_metrics" /\ Returned) =>
        /\ RatLE(Zero, result.AverageEndToEndDelay)
        /\ pcap.recv_times = <<>> => result.AverageEndToEndDelay = Zero

\* C4 amended: the delay is the mean of recv_times[i] - send_times[i] in
\* milliseconds; it is exactly 0 when recv_times is empty, and it is >= 0
\* when the recorded timestamps are non-decreasing in file order.
C4_DelayNonNegativeWhenOrdered ==
    (fn = "parse_pcap_metrics" /\ Returned) =>
        /\ pcap.recv_times = <<>> => result.AverageEndToEndDelay = Zero
        /\ pcap.recv_times # <<>> =>
             result.AverageEndToEndDelay
               = Rat(500 * PairedSum(pcap.recv_times, pcap.send_times),
                     Len(pcap.recv_times))
        /\ Sorted(pcap.send_times) => RatLE(Zero, result.AverageEndToEndDelay)

\* ordered timestamps 0, 0.5, 1.0 of which the last two are receives: the
\* delay is ((0.5 + 1.0) - (0 + 0.5)) / 2 * 1000 = 500 ms
C4_Witness ==
    /\ fn = "parse_pcap_metrics" /\ Returned
    /\ pcap.send_times = <<0, 1, 2>>
    /\ pcap.recv_times = <<1, 2>>
    /\ result.AverageEndToEndDelay = Rat(500, 1)

\* C11: a record whose decoding raises at any point (unreadable timestamp,
\* or unreadable control subtype after the header checks) is skipped as a
\* whole: sent, received, send_times and recv_times stay exactly as they
\* were before it, and the scan goes on with the next record.
C11_UndecodableRecordSkippedWhole ==
    [][(fn = "parse_pcap_metrics" /\ obs.undecodable' # obs.undecodable) =>
          /\ pcap' = pcap
          /\ pc' = "scan"]_vars

\* C8: once the capture handle is open it is closed before the function
\* returns, on the normal path and when iterating the capture raises.
C8_CapClosedOnReturn ==
    (fn = "parse_pcap_metrics" /\ pc = "returned" /\ cap # None) => cap = "closed"

\* ---- parse_log_metrics
\* C5 as stated: if some line carries "Total energy: <number>" the energy
\* is the number on the last such line whatever marker lines came before or
\* after; otherwise it is the number of lines with both markers.
C5_EnergyIsLastExplicit ==
    (fn = "parse_log_metrics" /\ Returned) =>
        result.EnergyConsumption = IF obs.lastEnergy # <<>>
                                   THEN Rat(obs.lastEnergy[1], 1)
                                   ELSE Rat(obs.markers, 1)

\* C5 amended: if some line carries "Total energy: <number>" the energy is
\* the number on the last such line plus the number of later lines on which
\* a transmit and a receive marker co-occur (marker lines before it, and
\* markers on a "Total energy" line itself, add nothing); otherwise it is
\* the number of lines with both markers.
C5_EnergyIsLastExplicitPlusLater ==
    (fn = "parse_log_metrics" /\ Returned) =>
        result.EnergyConsumption = IF obs.lastEnergy # <<>>
                                   THEN Rat(obs.lastEnergy[1] + obs.markersSince, 1)
                                   ELSE Rat(obs.markers, 1)

\* a marker line, "Total energy: 4", a marker line: the energy is 5
C5_Witness ==
    /\ fn = "parse_log_metrics" /\ Returned
    /\ obs.lastEnergy = <<4>> /\ obs.markers = 2 /\ obs.markersSince = 1
    /\ result.EnergyConsumption = Rat(5, 1)

\* C6: the overhead is ctrl_count / max(1, number of distinct node ids
\* announced), an id announced on several lines counted once, each control
\* line counted once, the divisor 1 when no id was announced.
C6_OverheadPerNode ==
    (fn = "parse_log_metrics" /\ Returned) =>
        /\ result.OverheadPackets = Rat(obs.ctrl, Max(1, Cardinality(obs.ids)))
        /\ obs.ids = {} => result.OverheadPackets = Rat(obs.ctrl, 1)

\* three control lines each announcing a node id, two ids in all: 3 / 2
C6_Witness ==
    /\ fn = "parse_log_metrics" /\ Returned
    /\ obs.announces = 3 /\ Cardinality(obs.ids) = 2 /\ obs.ctrl = 3
    /\ result.OverheadPackets = Rat(3, 2)

\* ---- main.py, both parsers
\* C7: when its file is missing or cannot be opened or read,
\* parse_pcap_metrics returns exactly {PDR 0, delay 0, throughput 0} and
\* parse_log_metrics exactly {overhead 0, energy 0, ETX 1.0}, whatever was
\* accumulated before; no exception leaves either function.
C7_FallbackOnFileFailure ==
    /\ pc # "raised"
    /\ (pc = "returned" /\ printed # None) =>
         /\ fn = "parse_pcap_metrics" =>
              result = [PDR |-> <<0, 1>>, AverageEndToEndDelay |-> <<0, 1>>,
                        Throughput |-> <<0, 1>>]
         /\ fn = "parse_log_metrics" =>
              result = [OverheadPackets |-> <<0, 1>>, EnergyConsumption |-> <<0, 1>>,
                        AverageETX |-> <<1, 1>>]

\* reading the log fails after control messages, node ids and energy were
\* accumulated
C7_Witness ==
    /\ fn = "parse_log_metrics" /\ pc = "returned"
    /\ printed = "[Error] Failed to parse log"
    /\ log.ctrl_count = 2 /\ log.energy_score = 4 /\ log.node_ids # {}
    /\ result.AverageETX = One

\* ---- omerw.py parse_log
\* C9 as stated: each receive is paired with the most recent send not yet
\* matched by an earlier receive and consumes it; a receive with no
\* unmatched send outstanding is counted in received and adds no delay.
C9_LifoPairingConsumes ==
    fn = "parse_log" =>
        /\ corr.received_packets = obs.receives
        /\ corr.delays = obs.pairedLifo

\* C9 amended: each timestamped receive is paired with the most recent
\* timestamped send recorded so far, which stays available (a second
\* receive after a single send is paired with that same send and adds a
\* second delay); a receive with no timestamp, or arriving before any
\* timestamped send, is counted in received and adds no delay.
C9_PairsWithLastSendNoConsume ==
    fn = "parse_log" =>
        /\ corr.received_packets = obs.receives
        /\ corr.delays = obs.pairedLast

\* a send at 0 ms, then receives at 1500 ms and 60000 ms: two delays
C9_Witness ==
    /\ fn = "parse_log" /\ pc = "returned"
    /\ corr.sent_packets = 1 /\ corr.received_packets = 2
    /\ corr.delays = <<1500, 60000>>

\* C10: the PDR of the metrics record is in [0,100]: received_packets never
\* exceeds sent_packets when the PDR is computed.
C10_CorrPdrInRange ==
    (fn = "parse_log" /\ pc = "returned") =>
        /\ RatLE(Zero, result.PDR)
        /\ RatLE(result.PDR, Hundred)
        /\ corr.received_packets <= corr.sent_packets

====
